---- MODULE Spec2Model ----
(***************************************************************************)
(* Model of librustdoc's BlanketImplFinder (clean/blanket_impl.rs).        *)
(*                                                                         *)
(* One analysis session (one DocContext) is modelled: the type universe    *)
(* and the accessibility oracle are read-only and fixed by Init, the       *)
(* memoization ledger cx.generated_synthetics and the fake DefId counter   *)
(* are the session's mutable state, and get_blanket_impls is followed      *)
(* step by step through its two loops.                                     *)
(***************************************************************************)
EXTENDS Naturals, Sequences, FiniteSets

\* ------------------------------------------------------------------ bounds
NumTraits == 2
NumImpls == 2
MaxCalls == 2

\* ---------------------------------------------------------------- universe
\* A target definition is identified by the three facts the finder reads
\* about it: the universe holds one target for every combination.
DefIds == [hidden : BOOLEAN, reachable : BOOLEAN, primitive : BOOLEAN]

TraitIds == 1 .. NumTraits
ImplIds == 1 .. NumImpls

\* What the universe can say about a trait: whether it is doc-reachable and
\* which provided (default) methods it declares.  The methods of a trait
\* that is not reachable are never read.
TraitShapes ==
    { [reachable |-> TRUE,  provided |-> {[ident |-> "a"], [ident |-> "b"]}],
      [reachable |-> FALSE, provided |-> {[ident |-> "a"]}] }

\* What the universe can say about an implementation:
\*   self_ty   "None" (impl_trait_ref is None), "Adt" (a concrete self
\*             type) or "Param" (TyParam);
\*   eq_ok     the answer of infcx.at(..).eq(self_ty, ty);
\*   may_apply the answer of infcx.predicate_may_hold;
\*   items     the names of the associated items the impl defines.
\* An answer the code never asks for (may_apply after a failed eq, both
\* after a concrete self type) is fixed to the value that would let the
\* candidate through.
ImplShapes ==
    { [self_ty |-> "None",  eq_ok |-> TRUE,  may_apply |-> TRUE,  items |-> {}],
      [self_ty |-> "Adt",   eq_ok |-> TRUE,  may_apply |-> TRUE,  items |-> {}],
      [self_ty |-> "Param", eq_ok |-> FALSE, may_apply |-> TRUE,  items |-> {}],
      [self_ty |-> "Param", eq_ok |-> TRUE,  may_apply |-> FALSE, items |-> {}],
      [self_ty |-> "Param", eq_ok |-> TRUE,  may_apply |-> TRUE,  items |-> {}],
      [self_ty |-> "Param", eq_ok |-> TRUE,  may_apply |-> TRUE,  items |-> {"a"}] }

VARIABLES
    trait_tab,            \* universe: TraitIds -> TraitShapes
    impl_tab,             \* universe: ImplIds -> ImplShapes
    impl_trait,           \* universe: ImplIds -> TraitIds
    generated_synthetics, \* cx.generated_synthetics: set of <<def_id, trait>>
    fake_def_ids,         \* cx.fake_def_ids: next fake DefId index
    pc,                   \* position in get_blanket_impls
    calls,                \* calls started in this session
    def_id,               \* argument def_id of the current (or last) call
    name,                 \* argument name of the current (or last) call
    impls,                \* the local Vec `impls`
    trait_idx,            \* position of the outer loop in cx.all_traits
    cands,                \* candidates for_each_relevant_impl has still to pass
    ret,                  \* the Vec the last completed call returned
    synthetics_at_entry,  \* generated_synthetics when the current call began
    queried               \* traits whose relevant impls this call asked for

vars == <<trait_tab, impl_tab, impl_trait, generated_synthetics, fake_def_ids, pc, calls,
          def_id, name, impls, trait_idx, cands, ret, synthetics_at_entry,
          queried>>

universe == <<trait_tab, impl_tab, impl_trait>>

\* cx.all_traits, in its iteration order.
all_traits == [k \in 1 .. NumTraits |-> k]

\* The two ways the universe registers implementations under traits
\* (trait_impls_of): all under the first trait, or dealt to the traits in
\* turn.
ImplTraitMaps ==
    { [i \in ImplIds |-> 1],
      [i \in ImplIds |-> ((i - 1) % NumTraits) + 1] }

\* for_each_relevant_impl(trait_def_id, ty, ..): the implementations
\* registered under the trait, in a fixed order.
RelevantImpls(tr) ==
    SelectSeq([k \in 1 .. NumImpls |-> k], LAMBDA i : impl_trait[i] = tr)

\* Faulty variant: the doc(hidden) test is lost.
HasDocHidden_Never(d) == FALSE

\* tcx.get_attrs(def_id).lists("doc").has_word("hidden")
HasDocHidden(d) == d.hidden

\* Faulty variant: the gate forgets `|| ty.is_primitive()`.
Eligible_ReachableOnly(d) == d.reachable

\* access_levels.is_doc_reachable(def_id) || ty.is_primitive()
Eligible(d) == d.reachable \/ d.primitive

\* Faulty variant: the outer loop does not consult generated_synthetics.
SkipTrait_NoLedger(d, tr) == ~trait_tab[tr].reachable

\* The `continue` of the outer loop.
SkipTrait(d, tr) ==
    \/ ~trait_tab[tr].reachable
    \/ <<d, tr>> \in generated_synthetics

\* Faulty variant: the match on the self type lets every type through.
IsTyParam_AnySelfTy(i) == TRUE

\* match trait_ref.self_ty().sty { TyParam(_) => {}, _ => return }
IsTyParam(i) == impl_tab[i].self_ty = "Param"

\* Faulty variant: the insertion into generated_synthetics is lost.
InsertSynthetic_Dropped(s, d, tr) == s

\* generated_synthetics.borrow_mut().insert((def_id, trait_def_id))
InsertSynthetic(s, d, tr) == s \cup {<<d, tr>>}

\* Faulty variant: the record carries the target's type, not the impl's.
BlanketSelfTy_OfTarget(i) == "Adt"

\* tcx.type_of(impl_def_id): the self type the impl is written for.
BlanketSelfTy(i) == impl_tab[i].self_ty

\* Faulty variant: the names are never collected.
ProvidedNames_Empty(tr) == {}

\* provided_trait_methods(trait).map(|meth| meth.ident.to_string()).collect()
ProvidedNames(tr) == {meth.ident : meth \in trait_tab[tr].provided}

\* The Item pushed for implementation i of trait tr.
MakeItem(d, n, tr, i, fresh) ==
    [ def_id |-> fresh,
      name |-> "None",
      visibility |-> "None",
      generics |-> i,
      provided_trait_methods |-> ProvidedNames(tr),
      trait_ |-> tr,
      for_ |-> <<d, n>>,
      items |-> impl_tab[i].items,
      polarity |-> "None",
      synthetic |-> FALSE,
      blanket_impl |-> BlanketSelfTy(i) ]

Init ==
    /\ trait_tab \in [TraitIds -> TraitShapes]
    /\ impl_tab \in [ImplIds -> ImplShapes]
    /\ impl_trait \in ImplTraitMaps
    /\ generated_synthetics = {}
    /\ fake_def_ids = 0
    /\ pc = "idle"
    /\ calls = 0
    /\ def_id = [hidden |-> FALSE, reachable |-> TRUE, primitive |-> FALSE]
    /\ name = "None"
    /\ impls = <<>>
    /\ trait_idx = 1
    /\ cands = <<>>
    /\ ret = <<>>
    /\ synthetics_at_entry = {}
    /\ queried = {}

\* ------------------------------------------------------------ entry points
Enter(d, n) ==
    /\ pc \in {"idle", "returned"}
    /\ calls < MaxCalls
    /\ calls' = calls + 1
    /\ def_id' = d
    /\ name' = n
    /\ impls' = <<>>
    /\ trait_idx' = 1
    /\ cands' = <<>>
    /\ synthetics_at_entry' = generated_synthetics
    /\ queried' = {}
    /\ pc' = "start"
    /\ UNCHANGED <<universe, generated_synthetics, fake_def_ids, ret>>

GetWithDefId(d) == Enter(d, "None")

GetWithNodeId(d) == Enter(d, "Some")

\* ------------------------------------------------------- get_blanket_impls
Return ==
    /\ ret' = impls
    /\ pc' = "returned"
    /\ UNCHANGED <<universe, generated_synthetics, fake_def_ids, calls, def_id,
                   name, impls, trait_idx, cands, synthetics_at_entry, queried>>

\* The item has doc(hidden): return the empty `impls`.
HiddenReturn ==
    /\ pc = "start"
    /\ HasDocHidden(def_id)
    /\ Return

\* Neither doc-reachable nor primitive: the loop is not entered.
GateClosed ==
    /\ pc = "start"
    /\ ~HasDocHidden(def_id)
    /\ ~Eligible(def_id)
    /\ Return

GateOpen ==
    /\ pc = "start"
    /\ ~HasDocHidden(def_id)
    /\ Eligible(def_id)
    /\ pc' = "traits"
    /\ UNCHANGED <<universe, generated_synthetics, fake_def_ids, calls, def_id,
                   name, impls, trait_idx, cands, ret, synthetics_at_entry,
                   queried>>

NextTrait ==
    /\ pc = "traits"
    /\ trait_idx <= Len(all_traits)
    /\ SkipTrait(def_id, all_traits[trait_idx])
    /\ trait_idx' = trait_idx + 1
    /\ UNCHANGED <<universe, generated_synthetics, fake_def_ids, pc, calls,
                   def_id, name, impls, cands, ret, synthetics_at_entry,
                   queried>>

ForEachRelevantImpl ==
    /\ pc = "traits"
    /\ trait_idx <= Len(all_traits)
    /\ ~SkipTrait(def_id, all_traits[trait_idx])
    /\ cands' = RelevantImpls(all_traits[trait_idx])
    /\ queried' = queried \cup {all_traits[trait_idx]}
    /\ pc' = "impls"
    /\ UNCHANGED <<universe, generated_synthetics, fake_def_ids, calls, def_id,
                   name, impls, trait_idx, ret, synthetics_at_entry>>

\* The closure returns without a push: on to the next candidate.
Discard ==
    /\ cands' = Tail(cands)
    /\ UNCHANGED <<universe, generated_synthetics, fake_def_ids, pc, calls,
                   def_id, name, impls, trait_idx, ret, synthetics_at_entry,
                   queried>>

\* Faulty variant: a missing trait reference is skipped like any other candidate.
NoTraitRef_Skip ==
    /\ pc = "impls"
    /\ cands # <<>>
    /\ impl_tab[Head(cands)].self_ty = "None"
    /\ Discard

\* impl_trait_ref(impl_def_id).expect("Cannot get impl trait") panics.
NoTraitRef ==
    /\ pc = "impls"
    /\ cands # <<>>
    /\ impl_tab[Head(cands)].self_ty = "None"
    /\ pc' = "aborted"
    /\ UNCHANGED <<universe, generated_synthetics, fake_def_ids, calls, def_id,
                   name, impls, trait_idx, cands, ret, synthetics_at_entry,
                   queried>>

NotTyParam ==
    /\ pc = "impls"
    /\ cands # <<>>
    /\ impl_tab[Head(cands)].self_ty # "None"
    /\ ~IsTyParam(Head(cands))
    /\ Discard

EqFailed ==
    /\ pc = "impls"
    /\ cands # <<>>
    /\ impl_tab[Head(cands)].self_ty # "None"
    /\ IsTyParam(Head(cands))
    /\ ~impl_tab[Head(cands)].eq_ok
    /\ Discard

\* Faulty variant: the pair is inserted before predicate_may_hold is consulted.
MayNotApply_AfterInsert ==
    /\ pc = "impls"
    /\ cands # <<>>
    /\ impl_tab[Head(cands)].self_ty # "None"
    /\ IsTyParam(Head(cands))
    /\ impl_tab[Head(cands)].eq_ok
    /\ ~impl_tab[Head(cands)].may_apply
    /\ generated_synthetics' =
           InsertSynthetic(generated_synthetics, def_id, all_traits[trait_idx])
    /\ cands' = Tail(cands)
    /\ UNCHANGED <<universe, fake_def_ids, pc, calls, def_id, name, impls,
                   trait_idx, ret, synthetics_at_entry, queried>>

MayNotApply ==
    /\ pc = "impls"
    /\ cands # <<>>
    /\ impl_tab[Head(cands)].self_ty # "None"
    /\ IsTyParam(Head(cands))
    /\ impl_tab[Head(cands)].eq_ok
    /\ ~impl_tab[Head(cands)].may_apply
    /\ Discard

Push ==
    /\ pc = "impls"
    /\ cands # <<>>
    /\ impl_tab[Head(cands)].self_ty # "None"
    /\ IsTyParam(Head(cands))
    /\ impl_tab[Head(cands)].eq_ok
    /\ impl_tab[Head(cands)].may_apply
    /\ generated_synthetics' =
           InsertSynthetic(generated_synthetics, def_id, all_traits[trait_idx])
    /\ impls' = Append(impls, MakeItem(def_id, name, all_traits[trait_idx],
                                       Head(cands), fake_def_ids))
    /\ fake_def_ids' = fake_def_ids + 1
    /\ cands' = Tail(cands)
    /\ UNCHANGED <<universe, pc, calls, def_id, name, trait_idx, ret,
                   synthetics_at_entry, queried>>

\* for_each_relevant_impl has passed every candidate.
TraitDone ==
    /\ pc = "impls"
    /\ cands = <<>>
    /\ trait_idx' = trait_idx + 1
    /\ pc' = "traits"
    /\ UNCHANGED <<universe, generated_synthetics, fake_def_ids, calls, def_id,
                   name, impls, cands, ret, synthetics_at_entry, queried>>

LoopDone ==
    /\ pc = "traits"
    /\ trait_idx > Len(all_traits)
    /\ Return

Next ==
    \/ \E d \in DefIds : GetWithDefId(d)
    \/ \E d \in DefIds : GetWithNodeId(d)
    \/ HiddenReturn
    \/ GateClosed
    \/ GateOpen
    \/ NextTrait
    \/ ForEachRelevantImpl
    \/ NoTraitRef
    \/ NotTyParam
    \/ EqFailed
    \/ MayNotApply
    \/ Push
    \/ TraitDone
    \/ LoopDone

Spec == Init /\ [][Next]_vars

\* ------------------------------------------------------------ the claims
\* The candidate passes the self-type filter, unification and may_hold.
Qualifies(i) ==
    /\ impl_tab[i].self_ty = "Param"
    /\ impl_tab[i].eq_ok
    /\ impl_tab[i].may_apply

\* The traits the records of a sequence name.
TraitsOf(seq) == {seq[k].trait_ : k \in DOMAIN seq}

\* The call in progress (or the last one) was let through both gates.
Scanned == ~def_id.hidden /\ (def_id.reachable \/ def_id.primitive)

\* C1: the sequence one call returns holds at most one record naming any
\* given trait, even when several blanket implementations of it qualify.
C1_AtMostOnePerTrait ==
    pc = "returned" =>
        \A tr \in TraitIds :
            Cardinality({k \in DOMAIN ret : ret[k].trait_ = tr}) <= 1

\* C2: a call for a target carrying doc(hidden) returns the empty sequence
\* and leaves the ledger as it was, whatever the universe holds and
\* whether or not the target is reachable or primitive; the scan is never
\* entered for it.
C2_HiddenSuppression ==
    def_id.hidden =>
        /\ pc \notin {"traits", "impls", "aborted"}
        /\ queried = {}
        /\ generated_synthetics = synthetics_at_entry
        /\ pc = "returned" => ret = <<>>

C2_Witness ==
    /\ pc = "returned"
    /\ def_id.hidden
    /\ def_id.reachable
    /\ \E i \in ImplIds :
           /\ Qualifies(i)
           /\ trait_tab[impl_trait[i]].reachable
           /\ <<def_id, impl_trait[i]>> \notin generated_synthetics

\* C3: a candidate whose self type is not a type parameter never yields a
\* record and never causes an insertion into the ledger, even when eq and
\* may_hold would both answer yes for it.
C3_NonBlanketExclusion ==
    /\ [](\A k \in DOMAIN impls : impl_tab[impls[k].generics].self_ty = "Param")
    /\ [][ ( /\ pc = "impls"
             /\ cands # <<>>
             /\ impl_tab[Head(cands)].self_ty # "Param" )
           => ( /\ generated_synthetics' = generated_synthetics
                /\ impls' = impls ) ]_vars

C3_Witness ==
    /\ pc = "returned"
    /\ Scanned
    /\ \E i \in ImplIds :
           /\ impl_tab[i].self_ty = "Adt"
           /\ impl_tab[i].eq_ok
           /\ impl_tab[i].may_apply
           /\ impl_trait[i] \in queried
           /\ \A k \in DOMAIN ret : ret[k].generics # i

\* C4 as stated: a non-hidden target is scanned iff it is reachable or
\* primitive; scanned, it yields a record for every reachable trait with a
\* qualifying blanket implementation; not scanned, it yields nothing and
\* the ledger is unchanged.
C4_GateAsStated ==
    (pc = "returned" /\ ~def_id.hidden) =>
        IF def_id.reachable \/ def_id.primitive
        THEN /\ trait_idx = Len(all_traits) + 1
             /\ \A i \in ImplIds :
                    (trait_tab[impl_trait[i]].reachable /\ Qualifies(i))
                        => impl_trait[i] \in TraitsOf(ret)
        ELSE /\ trait_idx = 1
             /\ ret = <<>>
             /\ generated_synthetics = synthetics_at_entry

\* C4 amended: as stated, but a record is owed only for the reachable
\* traits that were not already in the ledger for the target when the call
\* began (and only by a call that returns).
C4_ReachabilityGate ==
    (pc = "returned" /\ ~def_id.hidden) =>
        IF def_id.reachable \/ def_id.primitive
        THEN /\ trait_idx = Len(all_traits) + 1
             /\ queried = {tr \in TraitIds :
                              /\ trait_tab[tr].reachable
                              /\ <<def_id, tr>> \notin synthetics_at_entry}
             /\ \A i \in ImplIds :
                    ( /\ trait_tab[impl_trait[i]].reachable
                      /\ Qualifies(i)
                      /\ <<def_id, impl_trait[i]>> \notin synthetics_at_entry )
                        => impl_trait[i] \in TraitsOf(ret)
        ELSE /\ trait_idx = 1
             /\ queried = {}
             /\ ret = <<>>
             /\ generated_synthetics = synthetics_at_entry

C4_Witness ==
    /\ pc = "returned"
    /\ ~def_id.hidden
    /\ def_id.primitive
    /\ ~def_id.reachable
    /\ ret # <<>>

\* C5: when a call has returned, the ledger holds (target, trait) for every
\* record of the result; and no step ever removes a pair from the ledger.
C5_LedgerCoversResult ==
    /\ [](pc = "returned" =>
              \A k \in DOMAIN ret :
                  <<def_id, ret[k].trait_>> \in generated_synthetics)
    /\ [][generated_synthetics \subseteq generated_synthetics']_vars

C5_Witness ==
    /\ pc = "returned"
    /\ ret # <<>>
    /\ synthetics_at_entry # {}

\* C6: a trait that is not reachable, or whose pair with the target is in
\* the ledger when the loop reaches it, is passed over: its implementations
\* are not asked for and no record names it.  Hence a later call for the
\* same target returns no record for a trait an earlier call resolved.
C6_MemoizedSkipped ==
    /\ [](\A tr \in queried \cup TraitsOf(impls) :
              /\ trait_tab[tr].reachable
              /\ <<def_id, tr>> \notin synthetics_at_entry)
    /\ [](pc = "returned" =>
              \A tr \in TraitsOf(ret) :
                  <<def_id, tr>> \notin synthetics_at_entry)
    /\ [][ ( /\ pc = "traits"
             /\ trait_idx <= Len(all_traits)
             /\ \/ ~trait_tab[all_traits[trait_idx]].reachable
                \/ <<def_id, all_traits[trait_idx]>> \in generated_synthetics )
           => ( /\ queried' = queried
                /\ impls' = impls
                /\ generated_synthetics' = generated_synthetics
                /\ pc' = "traits"
                /\ trait_idx' = trait_idx + 1 ) ]_vars

C6_Witness ==
    /\ pc = "returned"
    /\ calls = 2
    /\ Scanned
    /\ \E tr \in TraitIds :
           /\ trait_tab[tr].reachable
           /\ <<def_id, tr>> \in synthetics_at_entry
           /\ tr \notin queried
    /\ \E i \in ImplIds : Qualifies(i) /\ <<def_id, impl_trait[i]>> \in synthetics_at_entry

C8_MissingTraitRefAborts ==
    /\ [](pc = "aborted" =>
              /\ cands # <<>>
              /\ impl_tab[Head(cands)].self_ty = "None")
    /\ [][ ( /\ pc = "impls"
             /\ cands # <<>>
             /\ impl_tab[Head(cands)].self_ty = "None" )
           => ( /\ pc' = "aborted"
                /\ cands' = cands
                /\ ret' = ret ) ]_vars
    /\ [][pc = "aborted" => pc' = "aborted"]_vars

C8_Witness ==
    /\ pc = "aborted"
    /\ impls # <<>>

\* C9 as stated: the record's provided_trait_methods are the trait's
\* default methods minus the methods the implementation defines.
C9_ProvidedAsStated ==
    \A k \in DOMAIN impls :
        impls[k].provided_trait_methods =
            {m.ident : m \in trait_tab[impls[k].trait_].provided}
                \ impl_tab[impls[k].generics].items

\* C9 amended: the record's provided_trait_methods are the names of all of
\* the trait's default methods, whether or not the implementation
\* redefines them.
C9_ProvidedMethods ==
    \A k \in DOMAIN impls :
        impls[k].provided_trait_methods =
            {m.ident : m \in trait_tab[impls[k].trait_].provided}

C9_Witness ==
    \E k \in DOMAIN impls :
        /\ impl_tab[impls[k].generics].items # {}
        /\ impl_tab[impls[k].generics].items
               \subseteq impls[k].provided_trait_methods

\* C10: the ledger changes only in the step in which a candidate has passed
\* the self-type filter, eq and may_hold, and that step appends a record for
\* the same trait; a candidate failing eq or may_hold changes neither and
\* the scan goes on.  So the pairs a call added are exactly the pairs of its
\* records.
C10_InsertOnlyWithRecord ==
    /\ [](generated_synthetics \ synthetics_at_entry
              = {<<def_id, tr>> : tr \in TraitsOf(impls)})
    /\ [][ generated_synthetics' # generated_synthetics
           => ( /\ pc = "impls"
                /\ cands # <<>>
                /\ Qualifies(Head(cands))
                /\ generated_synthetics' =
                       generated_synthetics \cup {<<def_id, all_traits[trait_idx]>>}
                /\ Len(impls') = Len(impls) + 1
                /\ SubSeq(impls', 1, Len(impls)) = impls
                /\ impls'[Len(impls')].trait_ = all_traits[trait_idx] ) ]_vars
    /\ [][ ( /\ pc = "impls"
             /\ cands # <<>>
             /\ impl_tab[Head(cands)].self_ty = "Param"
             /\ ~(impl_tab[Head(cands)].eq_ok /\ impl_tab[Head(cands)].may_apply) )
           => ( /\ generated_synthetics' = generated_synthetics
                /\ impls' = impls
                /\ pc' = "impls"
                /\ cands' = Tail(cands) ) ]_vars

C10_Witness ==
    /\ pc = "returned"
    /\ ret # <<>>
    /\ \E i \in ImplIds :
           /\ impl_tab[i].self_ty = "Param"
           /\ impl_tab[i].eq_ok
           /\ ~impl_tab[i].may_apply
           /\ impl_trait[i] \in queried

====
